---------------------------- MODULE Spec2Model ----------------------------
(***************************************************************************)
(* Model of basic_bot.py: a command-line client that normalises an order   *)
(* onto the exchange's step / tick / notional grid and submits it.         *)
(*                                                                         *)
(* Decimal values are records [c, e] standing for c * 10^(-e), the         *)
(* coefficient and the number of fractional digits of a decimal.Decimal.   *)
(* A quotient of two Decimals is kept as an exact fraction [n, d]: the     *)
(* context precision of 18 digits (basic_bot.py line 16) rounds a quotient *)
(* by less than 10^-17 of its size, which never moves a quotient of the    *)
(* bounded values used here across an integer, so the integer that         *)
(* to_integral_value derives from it is the one computed below.  Inputs    *)
(* with more than 18 significant digits are outside the model.             *)
(***************************************************************************)
EXTENDS Integers, Sequences, FiniteSets, TLC

VARIABLES
    pc,           \* position of main(): the next step it takes
    symbol,       \* main: symbol (after strip / upper)
    otype,        \* main: otype
    qty_in,       \* main: qty_in
    price_in,     \* main: price_in (None when absent)
    auto_yes,     \* main: auto_yes
    dry_run,      \* main: dry_run
    interactive,  \* TRUE when main took the input() branch (line 174)
    exchange,     \* the exchange's state: listed symbols' filters, ticker price
    used_price,   \* main: used_price
    final_qty,    \* main: final_qty
    normalized,   \* quantity after steps 1-3 of compute_qty in this invocation
    planPrinted,  \* the "Planned order" block was printed (line 213)
    answer,       \* what the user typed at the confirmation prompt
    calls,        \* number of requests sent per endpoint in this invocation
    response,     \* the HTTP outcome of the last order-placement request
    postResult,   \* how _post_signed ended for that request
    outcome,      \* how the invocation ended
    n_in,         \* normaliser harness: the call being made and its arguments
    n_out         \* normaliser harness: the value the call returned

vars == <<pc, symbol, otype, qty_in, price_in, auto_yes, dry_run, interactive,
          exchange, used_price, final_qty, normalized, planPrinted, answer,
          calls, response, postResult, outcome, n_in, n_out>>

mainVars == <<pc, symbol, otype, qty_in, price_in, auto_yes, dry_run,
              interactive, exchange, used_price, final_qty, normalized,
              planPrinted, answer, calls, response, postResult, outcome>>

-----------------------------------------------------------------------------
(* Bounds of the explored inputs *)

\* largest coefficient of a requested quantity, price or quantity limit
MaxCoef == 4
\* largest coefficient of a stepSize / tickSize
MaxStepCoef == 2
\* largest coefficient of a reference price
MaxPriceCoef == 3
\* largest minNotional
MaxNotional == 2
\* largest coefficient of a value handed to a rounding primitive
MaxValueCoef == 12
\* largest number of fractional digits of an input decimal
MaxPlaces == 1

\* Python's None in a place that otherwise holds a Decimal or a record
None == [none |-> TRUE]
\* a string variable not assigned yet
Unset == "unset"

-----------------------------------------------------------------------------
(* decimal.Decimal arithmetic *)

RECURSIVE Pow10(_)
Pow10(k) == IF k <= 0 THEN 1 ELSE 10 * Pow10(k - 1)

Dec(c, e) == [c |-> c, e |-> e]

Raise(x) == [exc |-> x]
IsExc(x) == "exc" \in DOMAIN x

\* Decimal comparison and equality are by numeric value, not by exponent
DecLT(a, b) == a.c * Pow10(b.e) < b.c * Pow10(a.e)
DecLE(a, b) == a.c * Pow10(b.e) <= b.c * Pow10(a.e)
DecEQ(a, b) == a.c * Pow10(b.e) = b.c * Pow10(a.e)

DecMul(a, b) == [c |-> a.c * b.c, e |-> a.e + b.e]
DecAdd(a, b) ==
    LET m == IF a.e >= b.e THEN a.e ELSE b.e
    IN  [c |-> a.c * Pow10(m - a.e) + b.c * Pow10(m - b.e), e |-> m]
DecSub(a, b) == DecAdd(a, [c |-> -b.c, e |-> b.e])

\* a Decimal as an exact fraction with a positive denominator
ToRat(a) == [n |-> a.c, d |-> Pow10(a.e)]

\* Decimal.__truediv__
DecDiv(a, b) ==
    IF b.c = 0
    THEN IF a.c = 0 THEN Raise("InvalidOperation") ELSE Raise("DivisionByZero")
    ELSE LET n == a.c * Pow10(b.e)
             d == b.c * Pow10(a.e)
         IN  IF d > 0 THEN [n |-> n, d |-> d] ELSE [n |-> -n, d |-> -d]

\* a fraction divided by a Decimal
RatDiv(v, s) ==
    IF s.c = 0
    THEN IF v.n = 0 THEN Raise("InvalidOperation") ELSE Raise("DivisionByZero")
    ELSE LET n == v.n * Pow10(s.e)
             d == v.d * s.c
         IN  IF d > 0 THEN [n |-> n, d |-> d] ELSE [n |-> -n, d |-> -d]

\* to_integral_value(rounding=ROUND_UP): away from zero
RoundUp(r) ==
    IF r.n >= 0 THEN (r.n + r.d - 1) \div r.d
                ELSE -(((-r.n) + r.d - 1) \div r.d)

\* to_integral_value(rounding=ROUND_DOWN): toward zero
RoundDown(r) ==
    IF r.n >= 0 THEN r.n \div r.d ELSE -((-r.n) \div r.d)

\* ROUND_HALF_EVEN of n / d for d > 0
HalfEven(n, d) ==
    LET a == IF n >= 0 THEN n ELSE -n
        q == a \div d
        r == a % d
        m == IF 2 * r > d \/ (2 * r = d /\ q % 2 = 1) THEN q + 1 ELSE q
    IN  IF n >= 0 THEN m ELSE -m

\* Decimal.quantize(step): rescale to the exponent of step
Quantize(x, step) ==
    IF x.e <= step.e
    THEN [c |-> x.c * Pow10(step.e - x.e), e |-> step.e]
    ELSE [c |-> HalfEven(x.c, Pow10(x.e - step.e)), e |-> step.e]

\* factor * step for an integral factor
Times(factor, step) == [c |-> factor * step.c, e |-> step.e]

-----------------------------------------------------------------------------
(* The rounding primitives and the normaliser *)

ceil_to_step_down(value, step) ==
    IF value.n <= 0 THEN Dec(0, 0)
    ELSE LET q == RatDiv(value, step)
         IN  IF IsExc(q) THEN q
             ELSE Quantize(Times(RoundDown(q), step), step)

ceil_to_step(value, step) ==
    IF value.n <= 0 THEN Dec(0, 0)
    ELSE LET q == RatDiv(value, step)
         IN  IF IsExc(q) THEN q
             ELSE Quantize(Times(RoundUp(q), step), step)

floor_to_step(value, step) ==
    LET q == RatDiv(value, step)
    IN  IF IsExc(q) THEN q
        ELSE Quantize(Times(RoundDown(q), step), step)

\* line 111: round the requested quantity up to the step
RoundedQty(requested_qty, f) == ceil_to_step(ToRat(requested_qty), f.stepSize)

NotionalQty_bump(qty, price, f) ==
    IF DecLT(DecMul(price, qty), f.notional)
    THEN DecAdd(qty, f.stepSize)
    ELSE qty

\* lines 114-118: raise the quantity to what the minimum notional needs
NotionalQty(qty, price, f) ==
    IF DecLT(DecMul(price, qty), f.notional)
    THEN LET ratio == DecDiv(f.notional, price)
         IN  IF IsExc(ratio) THEN ratio
             ELSE LET needed == ceil_to_step(ratio, f.stepSize)
                  IN  IF IsExc(needed) THEN needed
                      ELSE IF DecLT(qty, needed) THEN needed ELSE qty
    ELSE qty

ClampMin_none(qty, f) == qty

\* lines 121-122
ClampMin(qty, f) == IF DecLT(qty, f.minQty) THEN f.minQty ELSE qty

\* lines 111-122: the quantity before the maxQty test, or the exception raised
Normalized(requested_qty, price, f) ==
    LET q1 == RoundedQty(requested_qty, f)
    IN  IF IsExc(q1) THEN q1
        ELSE LET q2 == NotionalQty(q1, price, f)
             IN  IF IsExc(q2) THEN q2 ELSE ClampMin(q2, f)

LimitCheck_shrink(qty, f) ==
    IF DecLT(f.maxQty, qty) THEN [qty |-> f.maxQty, min_notional |-> f.notional]
    ELSE [qty |-> qty, min_notional |-> f.notional]

\* lines 125-128
LimitCheck(qty, f) ==
    IF DecLT(f.maxQty, qty) THEN Raise("QuantityExceedsLimit")
    ELSE [qty |-> qty, min_notional |-> f.notional]

\* compute_qty once the filters are fetched (lines 105-128)
compute_qty(requested_qty, price, f) ==
    LET q == Normalized(requested_qty, price, f)
    IN  IF IsExc(q) THEN q ELSE LimitCheck(q, f)

\* adjust_price_to_tick once the filters are fetched (lines 132-133)
adjust_price_to_tick(price, f) == floor_to_step(ToRat(price), f.tickSize)

-----------------------------------------------------------------------------
(* Input domains *)

Places == 0 .. MaxPlaces

\* requested quantities: negative, zero and positive
QtyValues == { Dec(c, e) : c \in -1 .. MaxCoef, e \in Places }

\* prices: negative, zero and positive
PriceValues == { Dec(c, e) : c \in -1 .. MaxPriceCoef, e \in Places }

\* stepSize / tickSize as the exchange may send them (0 is malformed)
StepValues == { Dec(c, e) : c \in 0 .. MaxStepCoef, e \in Places }

LimitValues == { Dec(c, e) : c \in 1 .. MaxCoef - 1, e \in Places }

NotionalValues == { Dec(c, 0) : c \in 0 .. MaxNotional }

\* values handed to the rounding primitives, some finer than every step
RoundingValues == { Dec(c, e) : c \in -1 .. MaxValueCoef, e \in 0 .. MaxPlaces + 1 }

FilterSets ==
    [ stepSize : StepValues, minQty : LimitValues, maxQty : LimitValues,
      notional : NotionalValues, tickSize : {Dec(1, 1)} ]

TickFilterSets ==
    [ stepSize : {Dec(1, 1)}, minQty : {Dec(1, 1)}, maxQty : {Dec(3, 0)},
      notional : {Dec(1, 0)}, tickSize : StepValues ]


-----------------------------------------------------------------------------
(* Strings typed on the command line or at a prompt *)

\* str.strip() on the strings used here
Strip(s) ==
    CASE s = "btcusdt " -> "btcusdt"
      [] s = " y "      -> "y"
      [] OTHER          -> s

\* str.upper() on the strings used here
Upper(s) ==
    CASE s = "btcusdt"  -> "BTCUSDT"
      [] s = "btcusdt " -> "BTCUSDT "
      [] OTHER          -> s

\* str.lower() on the strings used here
Lower(s) ==
    CASE s = "Y"   -> "y"
      [] s = "YES" -> "yes"
      [] OTHER     -> s

\* Decimal(str(x)) for a float x parsed from the decimal string d: repr
\* drops trailing zeros and always keeps one fractional digit
RECURSIVE StripZeros(_)
StripZeros(d) ==
    IF d.e > 0 /\ d.c % 10 = 0 THEN StripZeros([c |-> d.c \div 10, e |-> d.e - 1])
    ELSE d

DecimalOfFloat(d) ==
    LET r == StripZeros(d)
    IN  IF r.e = 0 THEN [c |-> r.c * 10, e |-> 1] ELSE r

-----------------------------------------------------------------------------
(* The exchange *)

ListedSymbol == "BTCUSDT"

SymbolArgs == {"BTCUSDT", "btcusdt", "DOGEUSDT"}
SymbolTyped == {"btcusdt ", "DOGEUSDT"}

\* filter sets the exchange serves while main() runs
MarketFilterSets ==
    [ stepSize : {Dec(1, 1)}, minQty : {Dec(1, 1), Dec(3, 1)},
      maxQty : {Dec(MaxCoef - 1, 0)}, notional : {Dec(1, 0)},
      tickSize : {Dec(1, 1)} ]

TickerPrices == { Dec(c, 0) : c \in MaxPriceCoef - 1 .. MaxPriceCoef }

Exchanges ==
    [ info : { [s \in {ListedSymbol} |-> f] : f \in MarketFilterSets },
      price : TickerPrices ]

\* get_symbol_filters on a fetched exchangeInfo (lines 84-87)
get_symbol_filters_any(sym, info) == info[ListedSymbol]

get_symbol_filters(sym, info) ==
    IF sym \in DOMAIN info THEN info[sym] ELSE Raise("SymbolNotFound")

\* what requests can do to a GET: a parsed body, or an exception (timeout,
\* connection error, raise_for_status), lines 51-59
GetOutcomes == {"ok", "fail"}

\* what the order-placement POST can meet: no response at all, the
\* exchange's own JSON answers (200 accepted, 400 rejected), or a gateway
\* error whose body may not be JSON
Responses ==
    [ transport : {"timeout", "refused"} ]
    \cup
    [ transport : {"ok"}, status : {200, 400}, json : {TRUE} ]
    \cup
    [ transport : {"ok"}, status : {502}, json : BOOLEAN ]

\* _post_signed, lines 68-80
post_signed(r) ==
    IF r.transport # "ok" THEN [kind |-> "raised", exc |-> "TransportFailure"]
    ELSE IF ~r.json THEN [kind |-> "raised", exc |-> "JSONDecodeError"]
    ELSE IF r.status # 200 THEN [kind |-> "error"]
    ELSE [kind |-> "data"]

Answers == {"y", "Y", " y ", "n", "yes", ""}

Confirms_loose(ans) == Lower(Strip(ans)) # "n"

\* lines 223-224
Confirms(ans) == Lower(Strip(ans)) = "y"

AfterOrder_retry(res) == IF res.kind = "data" THEN "done" ELSE "place_order"

\* lines 229-246: every path after place_order leaves main
AfterOrder(res) == "done"

-----------------------------------------------------------------------------
(* main() *)

NoCalls == [exchangeInfo |-> 0, ticker |-> 0, order |-> 0]

Ended(kind, caught) == [kind |-> kind, caught |-> caught]

Init ==
    /\ pc = "start"
    /\ symbol = Unset /\ otype = Unset /\ qty_in = None /\ price_in = None
    /\ auto_yes = FALSE /\ dry_run = FALSE /\ interactive = FALSE
    /\ exchange \in Exchanges
    /\ used_price = None /\ final_qty = None
    /\ normalized = None /\ planPrinted = FALSE /\ answer = Unset
    /\ calls = NoCalls /\ response = None /\ postResult = None
    /\ outcome = None
    /\ n_in = None /\ n_out = None

\* lines 163-173 and 185-192 without print_rules: all of --symbol, --side,
\* --type and a non-zero --quantity were given
ParseArgs ==
    /\ pc = "start"
    /\ \E sym \in SymbolArgs, t \in {"MARKET", "LIMIT"},
          q \in QtyValues, p \in PriceValues \cup {None},
          y \in BOOLEAN, d \in BOOLEAN :
          /\ q.c # 0
          /\ symbol' = Upper(sym)
          /\ otype' = t
          /\ qty_in' = DecimalOfFloat(q)
          /\ price_in' = IF p # None /\ p.c # 0 THEN DecimalOfFloat(p) ELSE None
          /\ auto_yes' = y
          /\ dry_run' = d
    /\ interactive' = FALSE
    /\ pc' = "print_rules"
    /\ UNCHANGED <<exchange, used_price, final_qty, normalized, planPrinted,
                   answer, calls, response, postResult, outcome, n_in, n_out>>

\* lines 173-174: an argument is missing or --quantity is 0, so the symbol
\* is asked for
AskSymbol ==
    /\ pc = "start"
    /\ \E typed \in SymbolTyped : symbol' = Upper(Strip(typed))
    /\ interactive' = TRUE
    /\ pc' = "print_rules"
    /\ UNCHANGED <<otype, qty_in, price_in, auto_yes, dry_run, exchange,
                   used_price, final_qty, normalized, planPrinted, answer,
                   calls, response, postResult, outcome, n_in, n_out>>

\* print_rules (lines 154-160), called at lines 175 and 186 outside the try
PrintRules ==
    /\ pc = "print_rules"
    /\ calls' = [calls EXCEPT !.exchangeInfo = @ + 1]
    /\ \E net \in GetOutcomes :
          IF net = "fail"
          THEN /\ pc' = "done"
               /\ outcome' = Ended("TransportFailure", FALSE)
          ELSE LET f == get_symbol_filters(symbol, exchange.info)
               IN  IF IsExc(f)
                   THEN /\ pc' = "done"
                        /\ outcome' = Ended(f.exc, FALSE)
                   ELSE /\ pc' = IF interactive THEN "read_inputs" ELSE "try"
                        /\ outcome' = outcome
    /\ UNCHANGED <<symbol, otype, qty_in, price_in, auto_yes, dry_run,
                   interactive, exchange, used_price, final_qty, normalized,
                   planPrinted, answer, response, postResult, n_in, n_out>>

\* lines 176-183
ReadInputs ==
    /\ pc = "read_inputs"
    /\ \E t \in {"MARKET", "LIMIT"}, q \in QtyValues, p \in PriceValues :
          /\ otype' = t
          /\ qty_in' = q
          /\ price_in' = IF t = "LIMIT" THEN p ELSE None
    /\ auto_yes' = FALSE
    /\ dry_run' = FALSE
    /\ pc' = "try"
    /\ UNCHANGED <<symbol, interactive, exchange, used_price, final_qty,
                   normalized, planPrinted, answer, calls, response,
                   postResult, outcome, n_in, n_out>>

\* line 198: get_market_price (lines 89-91)
GetMarketPrice ==
    /\ pc = "try" /\ otype = "MARKET"
    /\ calls' = [calls EXCEPT !.ticker = @ + 1]
    /\ \E net \in GetOutcomes :
          IF net = "fail"
          THEN /\ pc' = "done"
               /\ outcome' = Ended("TransportFailure", TRUE)
               /\ used_price' = used_price
          ELSE /\ pc' = "compute_qty"
               /\ used_price' = exchange.price
               /\ outcome' = outcome
    /\ UNCHANGED <<symbol, otype, qty_in, price_in, auto_yes, dry_run,
                   interactive, exchange, final_qty, normalized, planPrinted,
                   answer, response, postResult, n_in, n_out>>

\* lines 202-208: the LIMIT branch up to compute_qty
AdjustPrice ==
    /\ pc = "try" /\ otype # "MARKET"
    /\ IF price_in = None
       THEN /\ pc' = "done"
            /\ outcome' = Ended("InvalidOrderParameters", TRUE)
            /\ UNCHANGED <<calls, used_price>>
       ELSE /\ calls' = [calls EXCEPT !.exchangeInfo = @ + 1]
            /\ \E net \in GetOutcomes :
                  IF net = "fail"
                  THEN /\ pc' = "done"
                       /\ outcome' = Ended("TransportFailure", TRUE)
                       /\ used_price' = used_price
                  ELSE LET f == get_symbol_filters(symbol, exchange.info)
                           a == IF IsExc(f) THEN f
                                ELSE adjust_price_to_tick(price_in, f)
                       IN  IF IsExc(a)
                           THEN /\ pc' = "done"
                                /\ outcome' = Ended(a.exc, TRUE)
                                /\ used_price' = used_price
                           ELSE /\ pc' = "compute_qty"
                                /\ used_price' = a
                                /\ outcome' = outcome
    /\ UNCHANGED <<symbol, otype, qty_in, price_in, auto_yes, dry_run,
                   interactive, exchange, final_qty, normalized, planPrinted,
                   answer, response, postResult, n_in, n_out>>

\* lines 199 / 209: compute_qty (lines 103-128)
ComputeQty ==
    /\ pc = "compute_qty"
    /\ calls' = [calls EXCEPT !.exchangeInfo = @ + 1]
    /\ \E net \in GetOutcomes :
          IF net = "fail"
          THEN /\ pc' = "done"
               /\ outcome' = Ended("TransportFailure", TRUE)
               /\ UNCHANGED <<final_qty, normalized>>
          ELSE LET f == get_symbol_filters(symbol, exchange.info)
                   r == IF IsExc(f) THEN f
                        ELSE compute_qty(qty_in, used_price, f)
               IN  /\ normalized' = IF IsExc(f) THEN normalized
                                    ELSE Normalized(qty_in, used_price, f)
                   /\ IF IsExc(r)
                      THEN /\ pc' = "done"
                           /\ outcome' = Ended(r.exc, TRUE)
                           /\ final_qty' = final_qty
                      ELSE /\ pc' = "plan"
                           /\ final_qty' = r.qty
                           /\ outcome' = outcome
    /\ UNCHANGED <<symbol, otype, qty_in, price_in, auto_yes, dry_run,
                   interactive, exchange, used_price, planPrinted, answer,
                   response, postResult, n_in, n_out>>

\* lines 212-222: print the plan, then stop on dry-run or go on
PrintPlan ==
    /\ pc = "plan"
    /\ planPrinted' = TRUE
    /\ IF dry_run
       THEN /\ pc' = "done"
            /\ outcome' = Ended("DryRun", FALSE)
       ELSE /\ pc' = IF auto_yes THEN "place_order" ELSE "confirm"
            /\ outcome' = outcome
    /\ UNCHANGED <<symbol, otype, qty_in, price_in, auto_yes, dry_run,
                   interactive, exchange, used_price, final_qty, normalized,
                   answer, calls, response, postResult, n_in, n_out>>

\* lines 223-226
Confirm ==
    /\ pc = "confirm"
    /\ \E ans \in Answers :
          /\ answer' = ans
          /\ IF Confirms(ans)
             THEN /\ pc' = "place_order"
                  /\ outcome' = outcome
             ELSE /\ pc' = "done"
                  /\ outcome' = Ended("Aborted", FALSE)
    /\ UNCHANGED <<symbol, otype, qty_in, price_in, auto_yes, dry_run,
                   interactive, exchange, used_price, final_qty, normalized,
                   planPrinted, calls, response, postResult, n_in, n_out>>

\* lines 228-246: place_order (lines 135-140) through _post_signed
PlaceOrder ==
    /\ pc = "place_order"
    /\ calls' = [calls EXCEPT !.order = @ + 1]
    /\ \E r \in Responses :
          LET res == post_signed(r)
          IN  /\ response' = r
              /\ postResult' = res
              /\ pc' = AfterOrder(res)
              /\ outcome' = CASE res.kind = "raised" -> Ended(res.exc, TRUE)
                              [] res.kind = "error"  -> Ended("OrderFailed", FALSE)
                              [] OTHER               -> Ended("OrderPlaced", FALSE)
    /\ UNCHANGED <<symbol, otype, qty_in, price_in, auto_yes, dry_run,
                   interactive, exchange, used_price, final_qty, normalized,
                   planPrinted, answer, n_in, n_out>>

Next ==
    \/ ParseArgs \/ AskSymbol \/ PrintRules \/ ReadInputs \/ GetMarketPrice
    \/ AdjustPrice \/ ComputeQty \/ PrintPlan \/ Confirm \/ PlaceOrder

Spec == Init /\ [][Next]_vars

-----------------------------------------------------------------------------
(* main() at rest, used while the normaliser is exercised on its own *)

MainIdle ==
    /\ pc = "idle"
    /\ symbol = Unset /\ otype = Unset /\ qty_in = None /\ price_in = None
    /\ auto_yes = FALSE /\ dry_run = FALSE /\ interactive = FALSE
    /\ exchange = None /\ used_price = None /\ final_qty = None
    /\ normalized = None /\ planPrinted = FALSE /\ answer = Unset
    /\ calls = NoCalls /\ response = None /\ postResult = None
    /\ outcome = None

-----------------------------------------------------------------------------
(* The normaliser exercised on its own: every call with arguments from the *)
(* input domains.                                                          *)

NormCalls ==
    [ fn : {"ceil_to_step", "floor_to_step"},
      value : RoundingValues, step : StepValues ]
    \cup
    [ fn : {"compute_qty"}, requested_qty : QtyValues, price : PriceValues,
      f : FilterSets ]
    \cup
    [ fn : {"adjust_price_to_tick"}, price : RoundingValues,
      f : TickFilterSets ]

NormInit ==
    /\ MainIdle
    /\ n_in \in NormCalls
    /\ n_out = None

CallCeil ==
    /\ n_out = None /\ n_in.fn = "ceil_to_step"
    /\ n_out' = ceil_to_step(ToRat(n_in.value), n_in.step)
    /\ UNCHANGED <<mainVars, n_in>>

CallFloor ==
    /\ n_out = None /\ n_in.fn = "floor_to_step"
    /\ n_out' = floor_to_step(ToRat(n_in.value), n_in.step)
    /\ UNCHANGED <<mainVars, n_in>>

CallComputeQty ==
    /\ n_out = None /\ n_in.fn = "compute_qty"
    /\ n_out' = compute_qty(n_in.requested_qty, n_in.price, n_in.f)
    /\ UNCHANGED <<mainVars, n_in>>

CallAdjustPrice ==
    /\ n_out = None /\ n_in.fn = "adjust_price_to_tick"
    /\ n_out' = adjust_price_to_tick(n_in.price, n_in.f)
    /\ UNCHANGED <<mainVars, n_in>>

NormNext == CallCeil \/ CallFloor \/ CallComputeQty \/ CallAdjustPrice

NormSpec == NormInit /\ [][NormNext]_vars

-----------------------------------------------------------------------------
(* Properties of the normaliser *)

Zero == Dec(0, 0)

\* x is an exact integer multiple of step (step # 0)
OnGrid(x, step) == (x.c * Pow10(step.e)) % (step.c * Pow10(x.e)) = 0

Returned(fn) == n_out # None /\ n_in.fn = fn /\ ~IsExc(n_out)

\* C1: whenever compute_qty returns for filters with minQty <= maxQty and
\* stepSize > 0, the returned quantity lies between minQty and maxQty.
C1_QtyWithinLimits ==
    (/\ Returned("compute_qty")
     /\ DecLE(n_in.f.minQty, n_in.f.maxQty)
     /\ DecLT(Zero, n_in.f.stepSize))
    => /\ DecLE(n_in.f.minQty, n_out.qty)
       /\ DecLE(n_out.qty, n_in.f.maxQty)

\* a call where the clamp up to minQty decided the result
C1_Witness ==
    /\ Returned("compute_qty")
    /\ DecLT(Zero, n_in.f.stepSize)
    /\ DecLT(Zero, n_in.requested_qty)
    /\ DecLT(n_in.requested_qty, n_in.f.minQty)
    /\ DecEQ(n_out.qty, n_in.f.minQty)
    /\ DecLT(n_in.f.minQty, n_in.f.maxQty)

\* C2: whenever the reference price and minNotional are positive and
\* compute_qty returns, quantity * price >= minNotional; when the rounded
\* request falls short of the notional, the quantity adopted before the
\* minQty clamp is ceil(minNotional / price, stepSize).
C2_MeetsMinNotional ==
    (/\ Returned("compute_qty")
     /\ DecLT(Zero, n_in.price)
     /\ DecLT(Zero, n_in.f.notional))
    => /\ DecLE(n_in.f.notional, DecMul(n_out.qty, n_in.price))
       /\ LET q1 == RoundedQty(n_in.requested_qty, n_in.f)
              needed == ceil_to_step(DecDiv(n_in.f.notional, n_in.price),
                                     n_in.f.stepSize)
          IN  /\ ~IsExc(q1)
              /\ DecLT(DecMul(n_in.price, q1), n_in.f.notional)
                 => /\ ~IsExc(needed)
                    /\ DecEQ(n_out.qty,
                             IF DecLT(needed, n_in.f.minQty) THEN n_in.f.minQty
                             ELSE needed)

\* a non-positive request lifted by more than one step to meet the notional
C2_Witness ==
    /\ Returned("compute_qty")
    /\ DecLE(n_in.requested_qty, Zero)
    /\ DecLT(Zero, n_in.price)
    /\ DecLT(Zero, n_in.f.notional)
    /\ DecLT(n_in.f.minQty, n_out.qty)
    /\ DecLT(DecAdd(n_in.f.stepSize, n_in.f.stepSize), n_out.qty)

\* C3: for positive value and step, floor <= value < floor + step and
\* ceil - step < value <= ceil, and both results are integer multiples of
\* step (so a value on the grid is returned unchanged).
C3_RoundingBrackets ==
    (/\ n_out # None
     /\ n_in.fn \in {"ceil_to_step", "floor_to_step"}
     /\ DecLT(Zero, n_in.value)
     /\ DecLT(Zero, n_in.step))
    => /\ ~IsExc(n_out)
       /\ OnGrid(n_out, n_in.step)
       /\ OnGrid(n_in.value, n_in.step) => DecEQ(n_out, n_in.value)
       /\ n_in.fn = "floor_to_step"
            => /\ DecLE(n_out, n_in.value)
               /\ DecLT(n_in.value, DecAdd(n_out, n_in.step))
       /\ n_in.fn = "ceil_to_step"
            => /\ DecLT(DecSub(n_out, n_in.step), n_in.value)
               /\ DecLE(n_in.value, n_out)

\* a value strictly between two grid points, rounded up
C3_Witness ==
    /\ n_out # None /\ n_in.fn = "ceil_to_step"
    /\ DecLT(Zero, n_in.value) /\ DecLT(Zero, n_in.step)
    /\ ~OnGrid(n_in.value, n_in.step)
    /\ DecLT(n_in.step, n_in.value)
    /\ DecLT(n_in.value, n_out)

\* C9: whenever compute_qty returns for filters with stepSize > 0 and
\* minQty <= maxQty, the quantity is an integer multiple of stepSize; the
\* price returned by adjust_price_to_tick is an integer multiple of tickSize
\* and is <= the requested price.
C9_GridAligned ==
    /\ (/\ Returned("compute_qty")
        /\ DecLT(Zero, n_in.f.stepSize)
        /\ DecLE(n_in.f.minQty, n_in.f.maxQty))
       => OnGrid(n_out.qty, n_in.f.stepSize)
    /\ Returned("adjust_price_to_tick")
       => /\ OnGrid(n_out, n_in.f.tickSize)
          /\ DecLE(n_out, n_in.price)

-----------------------------------------------------------------------------
(* Properties of main() *)

Filters == exchange.info[ListedSymbol]

\* the request main() works on is known and is invalid
InvalidRequest ==
    /\ qty_in # None
    /\ \/ DecLE(qty_in, Zero)
       \/ otype = "LIMIT" /\ price_in = None

\* C4: a LIMIT order without a price, or a request for a non-positive
\* quantity, is rejected as InvalidOrderParameters before any request is
\* sent to the exchange; no order is ever submitted for it.
C4_InvalidRejectedBeforeNetwork ==
    InvalidRequest
    => /\ calls = NoCalls
       /\ pc = "done" => outcome.kind = "InvalidOrderParameters"

\* the quantity compute_qty arrived at before its maxQty test exceeds maxQty
OverLimit ==
    /\ normalized # None
    /\ ~IsExc(normalized)
    /\ DecLT(Filters.maxQty, normalized)

\* C5: whenever the normalised quantity exceeds maxQty the invocation ends
\* with QuantityExceedsLimit and no order-placement request is ever sent.
C5_OverLimitNeverSubmitted ==
    OverLimit
    => /\ pc = "done"
       /\ outcome = Ended("QuantityExceedsLimit", TRUE)
       /\ final_qty = None
       /\ calls.order = 0

\* a request above maxQty that went through compute_qty
C5_Witness ==
    /\ OverLimit
    /\ DecLT(Filters.maxQty, qty_in)
    /\ pc = "done"

\* C6: a non-2xx response to the order request comes back from _post_signed
\* as an error result, a 2xx response as the plain result, and only a
\* network-level failure is raised.
C6_PostOutcomeKinds ==
    postResult # None
    => IF response.transport = "ok"
       THEN IF response.status \in 200 .. 299
            THEN postResult.kind = "data"
            ELSE postResult.kind = "error"
       ELSE postResult.kind = "raised"

\* the symbol main() works on is not in the exchange's metadata
Unlisted == symbol # Unset /\ symbol \notin DOMAIN exchange.info

\* C7: when the requested symbol is absent from the metadata, no ticker
\* request and no order request is ever sent, and the invocation ends with
\* SymbolNotFound at the first metadata lookup (or with the failure of that
\* lookup's own request), for MARKET and LIMIT alike.
C7_UnlistedSymbolStops ==
    Unlisted
    => /\ calls.ticker = 0
       /\ calls.order = 0
       /\ calls.exchangeInfo <= 1
       /\ pc \in {"print_rules", "done"}
       /\ pc = "done"
          => \/ outcome.kind = "SymbolNotFound"
             \/ outcome.kind = "TransportFailure" /\ calls.exchangeInfo = 1

\* a LIMIT invocation for an unlisted symbol that ended with SymbolNotFound
C7_Witness ==
    /\ Unlisted
    /\ otype = "LIMIT"
    /\ pc = "done"
    /\ outcome.kind = "SymbolNotFound"
    /\ calls = [exchangeInfo |-> 1, ticker |-> 0, order |-> 0]

\* answers that are a 'y' up to case and surrounding blanks
YesAnswers == {"y", "Y", " y "}

C10_AtMostOneOrderRequest ==
    /\ calls.order <= 1
    /\ calls.order = 1 => pc = "done" /\ outcome # None

\* an order request that failed at the transport level, or was rejected
C10_Witness ==
    /\ calls.order = 1
    /\ pc = "done"
    /\ postResult.kind \in {"raised", "error"}

=============================================================================
